---------------------------- MODULE Spec2Model ----------------------------
(***************************************************************************)
(* Transaction pool errors (sc-transaction-pool-api, src/error.rs).        *)
(*                                                                         *)
(* The module models the Error enum, Error::is_retriable, the Display     *)
(* implementation that thiserror derives from the #[error(...)]            *)
(* attributes, and the IntoPoolError trait with its default method and its *)
(* implementation for Error.  Strings are sequences of one-character       *)
(* strings, so that a rendering can be compared character by character.    *)
(***************************************************************************)
EXTENDS Naturals, Sequences, FiniteSets

VARIABLES
    e,            \* the owned Error value, NoError before construction / after a move
    made,         \* the Error value as the producer constructed it
    retriable,    \* result of the last e.is_retriable()
    rendered,     \* result of the last e.to_string()
    converted,    \* outcome of e.into_pool_error()
    reclassified, \* is_retriable() of the value that into_pool_error() yielded
    x,            \* a foreign error value, NoError before construction / after a move
    xmade,        \* the foreign error value as it was constructed
    fconverted,   \* outcome of x.into_pool_error() (default trait method)
    resident      \* priority of the transaction already in the pool slot

vars == <<e, made, retriable, rendered, converted, reclassified, x, xmade, fconverted, resident>>

----------------------------------------------------------------------------
(* Bounds of the model. *)

MaxPriority == 11   \* priorities 0..MaxPriority (one- and two-digit renderings)
MaxStrLen == 2      \* block-id strings of length 0..MaxStrLen
MaxCustom == 1      \* Custom(n) validity codes, n in 0..MaxCustom
MaxHash == 10       \* transaction hashes 0..MaxHash carried by AlreadyImported
MaxForeign == 1     \* foreign error codes 0..MaxForeign

Priority == 0..MaxPriority
Chars == {"0", "x", "a"}
String == UNION {[1..n -> Chars] : n \in 0..MaxStrLen}
Hash == 0..MaxHash

----------------------------------------------------------------------------
(* Option and Result values. *)

None == <<>>
Some(v) == <<v>>
Ok(v) == [tag |-> "Ok", val |-> v]
Err(v) == [tag |-> "Err", val |-> v]

NoError == [variant |-> "None"]

----------------------------------------------------------------------------
(* The payload types of sp_runtime::transaction_validity. *)

UnknownTransactionCodes ==
    {[variant |-> n] : n \in {"CannotLookup", "NoUnsignedValidator"}}
    \cup {[variant |-> "Custom", f0 |-> n] : n \in 0..MaxCustom}

InvalidTransactionCodes ==
    {[variant |-> n] : n \in {"Call", "Payment", "Future", "Stale", "BadProof",
                              "AncientBirthBlock", "ExhaustsResources", "BadMandatory",
                              "MandatoryValidation", "BadSigner"}}
    \cup {[variant |-> "Custom", f0 |-> n] : n \in 0..MaxCustom}

----------------------------------------------------------------------------
(* enum Error: one constructor per variant. *)

UnknownTransaction(f0) == [variant |-> "UnknownTransaction", f0 |-> f0]
InvalidTransaction(f0) == [variant |-> "InvalidTransaction", f0 |-> f0]
NoTagsProvided == [variant |-> "NoTagsProvided"]
TemporarilyBanned == [variant |-> "TemporarilyBanned"]
AlreadyImported(f0) == [variant |-> "AlreadyImported", f0 |-> f0]

TooLowPriority_swapped(old, new) == [variant |-> "TooLowPriority", old |-> new, new |-> old]

TooLowPriority(old, new) == [variant |-> "TooLowPriority", old |-> old, new |-> new]

CycleDetected == [variant |-> "CycleDetected"]
ImmediatelyDropped == [variant |-> "ImmediatelyDropped"]
Unactionable == [variant |-> "Unactionable"]
InvalidBlockId(f0) == [variant |-> "InvalidBlockId", f0 |-> f0]
RejectedFutureTransaction == [variant |-> "RejectedFutureTransaction"]

Error ==
    {UnknownTransaction(c) : c \in UnknownTransactionCodes}
    \cup {InvalidTransaction(c) : c \in InvalidTransactionCodes}
    \cup {NoTagsProvided, TemporarilyBanned}
    \cup {AlreadyImported(h) : h \in Hash}
    \cup {TooLowPriority(p[1], p[2]) : p \in Priority \X Priority}
    \cup {CycleDetected, ImmediatelyDropped, Unactionable}
    \cup {InvalidBlockId(s) : s \in String}
    \cup {RejectedFutureTransaction}

(* A foreign error type that implements IntoPoolError with the default method. *)
ForeignError == [kind : {"Rpc", "Api"}, code : 0..MaxForeign]

----------------------------------------------------------------------------
(* The literal text of the #[error(...)] attributes and of the Debug output. *)

\* "Unknown transaction validity: "
Msg_UnknownTransaction ==
    <<"U", "n", "k", "n", "o", "w", "n", " ", "t", "r", "a", "n", "s", "a", "c", "t", "i", "o",
      "n", " ", "v", "a", "l", "i", "d", "i", "t", "y", ":", " ">>
\* "Invalid transaction validity: "
Msg_InvalidTransaction ==
    <<"I", "n", "v", "a", "l", "i", "d", " ", "t", "r", "a", "n", "s", "a", "c", "t", "i", "o",
      "n", " ", "v", "a", "l", "i", "d", "i", "t", "y", ":", " ">>
\* "Transaction does not provide any tags, so the pool can't identify it"
Msg_NoTagsProvided ==
    <<"T", "r", "a", "n", "s", "a", "c", "t", "i", "o", "n", " ", "d", "o", "e", "s", " ", "n",
      "o", "t", " ", "p", "r", "o", "v", "i", "d", "e", " ", "a", "n", "y", " ", "t", "a", "g",
      "s", ",", " ", "s", "o", " ", "t", "h", "e", " ", "p", "o", "o", "l", " ", "c", "a", "n",
      "'", "t", " ", "i", "d", "e", "n", "t", "i", "f", "y", " ", "i", "t">>
\* "Transaction temporarily Banned"
Msg_TemporarilyBanned ==
    <<"T", "r", "a", "n", "s", "a", "c", "t", "i", "o", "n", " ", "t", "e", "m", "p", "o", "r",
      "a", "r", "i", "l", "y", " ", "B", "a", "n", "n", "e", "d">>
\* "["
Msg_AlreadyImported_pre ==
    <<"[">>
\* "] Already imported"
Msg_AlreadyImported_post ==
    <<"]", " ", "A", "l", "r", "e", "a", "d", "y", " ", "i", "m", "p", "o", "r", "t", "e", "d">>
\* "Too low priority ("
Msg_TooLowPriority_pre ==
    <<"T", "o", "o", " ", "l", "o", "w", " ", "p", "r", "i", "o", "r", "i", "t", "y", " ", "(">>
\* " > "
Msg_TooLowPriority_mid ==
    <<" ", ">", " ">>
\* ")"
Msg_TooLowPriority_post ==
    <<")">>
\* "Transaction with cyclic dependency"
Msg_CycleDetected ==
    <<"T", "r", "a", "n", "s", "a", "c", "t", "i", "o", "n", " ", "w", "i", "t", "h", " ", "c",
      "y", "c", "l", "i", "c", " ", "d", "e", "p", "e", "n", "d", "e", "n", "c", "y">>
\* "Transaction couldn't enter the pool because of the limit"
Msg_ImmediatelyDropped ==
    <<"T", "r", "a", "n", "s", "a", "c", "t", "i", "o", "n", " ", "c", "o", "u", "l", "d", "n",
      "'", "t", " ", "e", "n", "t", "e", "r", " ", "t", "h", "e", " ", "p", "o", "o", "l", " ",
      "b", "e", "c", "a", "u", "s", "e", " ", "o", "f", " ", "t", "h", "e", " ", "l", "i", "m",
      "i", "t">>
\* "Transaction cannot be propagated and the local node does not author blocks"
Msg_Unactionable ==
    <<"T", "r", "a", "n", "s", "a", "c", "t", "i", "o", "n", " ", "c", "a", "n", "n", "o", "t",
      " ", "b", "e", " ", "p", "r", "o", "p", "a", "g", "a", "t", "e", "d", " ", "a", "n", "d",
      " ", "t", "h", "e", " ", "l", "o", "c", "a", "l", " ", "n", "o", "d", "e", " ", "d", "o",
      "e", "s", " ", "n", "o", "t", " ", "a", "u", "t", "h", "o", "r", " ", "b", "l", "o", "c",
      "k", "s">>
\* "The pool is not accepting future transactions"
Msg_RejectedFutureTransaction ==
    <<"T", "h", "e", " ", "p", "o", "o", "l", " ", "i", "s", " ", "n", "o", "t", " ", "a", "c",
      "c", "e", "p", "t", "i", "n", "g", " ", "f", "u", "t", "u", "r", "e", " ", "t", "r", "a",
      "n", "s", "a", "c", "t", "i", "o", "n", "s">>
\* "Any { .. }"
Str_Any ==
    <<"A", "n", "y", " ", "{", " ", ".", ".", " ", "}">>
\* "Custom("
Str_Custom_pre ==
    <<"C", "u", "s", "t", "o", "m", "(">>
\* ")"
Str_Custom_post ==
    <<")">>

UnitName(name) ==
    CASE name = "CannotLookup" ->
           <<"C", "a", "n", "n", "o", "t", "L", "o", "o", "k", "u", "p">>
      [] name = "NoUnsignedValidator" ->
           <<"N", "o", "U", "n", "s", "i", "g", "n", "e", "d", "V", "a", "l", "i", "d", "a", "t", "o", "r">>
      [] name = "Call" ->
           <<"C", "a", "l", "l">>
      [] name = "Payment" ->
           <<"P", "a", "y", "m", "e", "n", "t">>
      [] name = "Future" ->
           <<"F", "u", "t", "u", "r", "e">>
      [] name = "Stale" ->
           <<"S", "t", "a", "l", "e">>
      [] name = "BadProof" ->
           <<"B", "a", "d", "P", "r", "o", "o", "f">>
      [] name = "AncientBirthBlock" ->
           <<"A", "n", "c", "i", "e", "n", "t", "B", "i", "r", "t", "h", "B", "l", "o", "c", "k">>
      [] name = "ExhaustsResources" ->
           <<"E", "x", "h", "a", "u", "s", "t", "s", "R", "e", "s", "o", "u", "r", "c", "e", "s">>
      [] name = "BadMandatory" ->
           <<"B", "a", "d", "M", "a", "n", "d", "a", "t", "o", "r", "y">>
      [] name = "MandatoryValidation" ->
           <<"M", "a", "n", "d", "a", "t", "o", "r", "y", "V", "a", "l", "i", "d", "a", "t", "i", "o", "n">>
      [] name = "BadSigner" ->
           <<"B", "a", "d", "S", "i", "g", "n", "e", "r">>

----------------------------------------------------------------------------
(* Formatting. *)

Digits == <<"0", "1", "2", "3", "4", "5", "6", "7", "8", "9">>

(* "{}" / "{:?}" of an unsigned integer: its decimal digits. *)
RECURSIVE Dec(_)
Dec(n) == IF n < 10 THEN <<Digits[n + 1]>> ELSE Dec(n \div 10) \o <<Digits[(n % 10) + 1]>>

(* "{:?}" of a validity code: derive(Debug) prints the variant's name, and *)
(* the field of a tuple variant in parentheses.                            *)
DebugValidity(c) ==
    IF c.variant = "Custom"
    THEN Str_Custom_pre \o Dec(c.f0) \o Str_Custom_post
    ELSE UnitName(c.variant)

(* "{:?}" of Box<dyn Any + Send + Sync>: the payload is type-erased, the   *)
(* Debug implementation of dyn Any prints the fixed text "Any { .. }".     *)
DebugAny(f0) == Str_Any

fmt_UnknownTransaction(f0) == Msg_UnknownTransaction \o DebugValidity(f0)

fmt_InvalidTransaction(f0) == Msg_InvalidTransaction \o DebugValidity(f0)

fmt_AlreadyImported(f0) == Msg_AlreadyImported_pre \o DebugAny(f0) \o Msg_AlreadyImported_post

fmt_TooLowPriority_swapped(old, new) ==
    Msg_TooLowPriority_pre \o Dec(new) \o Msg_TooLowPriority_mid \o Dec(old)
        \o Msg_TooLowPriority_post

fmt_TooLowPriority(old, new) ==
    Msg_TooLowPriority_pre \o Dec(old) \o Msg_TooLowPriority_mid \o Dec(new)
        \o Msg_TooLowPriority_post

fmt_InvalidBlockId_debug(f0) == <<"\"">> \o f0 \o <<"\"">>

fmt_InvalidBlockId(f0) == f0

(* impl Display for Error, derived by thiserror. *)
fmt(self) ==
    CASE self.variant = "UnknownTransaction" -> fmt_UnknownTransaction(self.f0)
      [] self.variant = "InvalidTransaction" -> fmt_InvalidTransaction(self.f0)
      [] self.variant = "NoTagsProvided" -> Msg_NoTagsProvided
      [] self.variant = "TemporarilyBanned" -> Msg_TemporarilyBanned
      [] self.variant = "AlreadyImported" -> fmt_AlreadyImported(self.f0)
      [] self.variant = "TooLowPriority" -> fmt_TooLowPriority(self.old, self.new)
      [] self.variant = "CycleDetected" -> Msg_CycleDetected
      [] self.variant = "ImmediatelyDropped" -> Msg_ImmediatelyDropped
      [] self.variant = "Unactionable" -> Msg_Unactionable
      [] self.variant = "InvalidBlockId" -> fmt_InvalidBlockId(self.f0)
      [] self.variant = "RejectedFutureTransaction" -> Msg_RejectedFutureTransaction

----------------------------------------------------------------------------
(* Error::is_retriable. *)

is_retriable_noBlockId(self) ==
    CASE self.variant = "TemporarilyBanned" -> TRUE
      [] self.variant = "ImmediatelyDropped" -> TRUE
      [] self.variant = "RejectedFutureTransaction" -> TRUE
      [] OTHER -> FALSE

is_retriable_unactionable(self) ==
    CASE self.variant = "TemporarilyBanned" -> TRUE
      [] self.variant = "ImmediatelyDropped" -> TRUE
      [] self.variant = "InvalidBlockId" -> TRUE
      [] self.variant = "RejectedFutureTransaction" -> TRUE
      [] self.variant = "Unactionable" -> TRUE
      [] OTHER -> FALSE

is_retriable(self) ==
    CASE self.variant = "TemporarilyBanned" -> TRUE
      [] self.variant = "ImmediatelyDropped" -> TRUE
      [] self.variant = "InvalidBlockId" -> TRUE
      [] self.variant = "RejectedFutureTransaction" -> TRUE
      [] OTHER -> FALSE

----------------------------------------------------------------------------
(* trait IntoPoolError. *)

into_pool_error_default_generic(self) == Ok(Unactionable)

(* The default method of the trait. *)
into_pool_error_default(self) == Err(self)

into_pool_error_asDefault(self) == Err(self)

(* impl IntoPoolError for Error. *)
into_pool_error(self) == Ok(self)

----------------------------------------------------------------------------
(* The state after construction: no error has been produced yet. *)

Init ==
    /\ e = NoError
    /\ made = NoError
    /\ retriable = None
    /\ rendered = None
    /\ converted = None
    /\ reclassified = None
    /\ x = NoError
    /\ xmade = NoError
    /\ fconverted = None
    /\ resident = 0

(* A producer constructs an Error value; any value of the type may be built. *)
Construct(v) ==
    /\ e' = v
    /\ made' = v
    /\ retriable' = None
    /\ rendered' = None
    /\ converted' = None
    /\ reclassified' = None
    /\ UNCHANGED <<x, xmade, fconverted, resident>>

(* Pool admission: a transaction of priority new wants the slot whose      *)
(* resident has priority resident.  It is rejected with TooLowPriority     *)
(* when its priority does not exceed the resident's, and replaces the      *)
(* resident otherwise.                                                     *)
Submit(new) ==
    IF new <= resident
    THEN /\ e' = TooLowPriority(resident, new)
         /\ made' = TooLowPriority(resident, new)
         /\ retriable' = None
         /\ rendered' = None
         /\ converted' = None
         /\ reclassified' = None
         /\ UNCHANGED <<x, xmade, fconverted, resident>>
    ELSE /\ resident' = new
         /\ UNCHANGED <<e, made, retriable, rendered, converted, reclassified, x, xmade, fconverted>>

IsRetriable_consuming ==
    /\ e # NoError
    /\ retriable' = Some(is_retriable(e))
    /\ e' = NoError
    /\ UNCHANGED <<made, rendered, converted, reclassified, x, xmade, fconverted, resident>>

(* e.is_retriable(): takes &self. *)
IsRetriable ==
    /\ e # NoError
    /\ retriable' = Some(is_retriable(e))
    /\ UNCHANGED <<e, made, rendered, converted, reclassified, x, xmade, fconverted, resident>>

(* e.to_string(): takes &self. *)
Display ==
    /\ e # NoError
    /\ rendered' = Some(fmt(e))
    /\ UNCHANGED <<e, made, retriable, converted, reclassified, x, xmade, fconverted, resident>>

(* e.into_pool_error(): takes self by value, e is moved into the outcome. *)
IntoPoolError ==
    /\ e # NoError
    /\ converted' = Some(into_pool_error(e))
    /\ e' = NoError
    /\ UNCHANGED <<made, retriable, rendered, reclassified, x, xmade, fconverted, resident>>

(* is_retriable() of the Error that the conversion yielded. *)
Reclassify ==
    /\ converted # None
    /\ converted[1].tag = "Ok"
    /\ reclassified' = Some(is_retriable(converted[1].val))
    /\ UNCHANGED <<e, made, retriable, rendered, converted, x, xmade, fconverted, resident>>

(* A collaborating layer constructs a foreign error. *)
ForeignConstruct(v) ==
    /\ x' = v
    /\ xmade' = v
    /\ fconverted' = None
    /\ UNCHANGED <<e, made, retriable, rendered, converted, reclassified, resident>>

(* x.into_pool_error() through the default method: x is moved into the outcome. *)
ForeignIntoPoolError ==
    /\ x # NoError
    /\ fconverted' = Some(into_pool_error_default(x))
    /\ x' = NoError
    /\ UNCHANGED <<xmade, e, made, retriable, rendered, converted, reclassified, resident>>

Next ==
    \/ \E v \in Error : Construct(v)
    \/ IsRetriable
    \/ Display
    \/ IntoPoolError
    \/ Reclassify
    \/ \E v \in ForeignError : ForeignConstruct(v)
    \/ ForeignIntoPoolError

Spec == Init /\ [][Next]_vars

(* The errors are produced by pool admission only. *)
NextProducer ==
    \/ \E p \in Priority : Submit(p)
    \/ IsRetriable
    \/ Display
    \/ IntoPoolError
    \/ Reclassify
    \/ \E v \in ForeignError : ForeignConstruct(v)
    \/ ForeignIntoPoolError

SpecProducer == Init /\ [][NextProducer]_vars

----------------------------------------------------------------------------
(* Helpers of the properties. *)

RetriableVariants ==
    {"TemporarilyBanned", "ImmediatelyDropped", "InvalidBlockId", "RejectedFutureTransaction"}

TerminalVariants ==
    {"UnknownTransaction", "InvalidTransaction", "NoTagsProvided", "AlreadyImported",
     "TooLowPriority", "CycleDetected", "Unactionable"}

(* needle occurs in hay starting at position i. *)
OccursAt(hay, needle, i) ==
    /\ i >= 1
    /\ i + Len(needle) - 1 <= Len(hay)
    /\ \A k \in 1..Len(needle) : hay[i + k - 1] = needle[k]

Contains(hay, needle) == \E i \in 1..(Len(hay) + 1) : OccursAt(hay, needle, i)

(* first occurs in hay, and second occurs after the end of that occurrence. *)
ContainsInOrder(hay, first, second) ==
    \E i \in 1..(Len(hay) + 1) : \E j \in 1..(Len(hay) + 1) :
        /\ OccursAt(hay, first, i)
        /\ OccursAt(hay, second, j)
        /\ j >= i + Len(first)

----------------------------------------------------------------------------
\* C1: is_retriable() returns true for every TemporarilyBanned, ImmediatelyDropped,
\* InvalidBlockId(s) (any string s, the empty one included) and RejectedFutureTransaction.
C1_RetriableVariantsAreRetriable ==
    (retriable # None /\ made.variant \in RetriableVariants) => retriable = Some(TRUE)

C1_Witness ==
    /\ made = InvalidBlockId(<<>>)
    /\ retriable = Some(TRUE)

\* C2: is_retriable() returns false for every value of the seven other variants,
\* whatever its payload, so only the four retriable variants classify as true.
C2_OtherVariantsAreTerminal ==
    /\ (retriable # None /\ made.variant \in TerminalVariants) => retriable = Some(FALSE)
    /\ retriable = Some(TRUE) => made.variant \in RetriableVariants

C2_Witness ==
    /\ made = Unactionable
    /\ retriable = Some(FALSE)

\* C3: identity law: e.into_pool_error() is Ok of the value e was, same variant and
\* same payload, and never Err.
C3_IdentityLaw ==
    converted # None => converted = Some(Ok(made))

C3_Witness ==
    /\ made.variant = "TooLowPriority"
    /\ made.old # made.new
    /\ converted # None
    /\ e = NoError

\* C4: default-safety law: the default into_pool_error() of a foreign error is Err of
\* the unchanged value, never a pool Error.
C4_DefaultSafetyLaw ==
    fconverted # None => fconverted = Some(Err(xmade))

C4_Witness ==
    /\ fconverted # None
    /\ xmade = [kind |-> "Api", code |-> MaxForeign]
    /\ x = NoError

C7_PayloadShown ==
    rendered # None =>
        /\ CASE made.variant \in {"UnknownTransaction", "InvalidTransaction"} ->
                    Contains(rendered[1], DebugValidity(made.f0))
             [] made.variant = "AlreadyImported" -> Contains(rendered[1], Dec(made.f0))
             [] made.variant = "TooLowPriority" ->
                    ContainsInOrder(rendered[1], Dec(made.old), Dec(made.new))
             [] made.variant = "InvalidBlockId" -> Contains(rendered[1], made.f0)
             [] OTHER -> TRUE
        /\ \A v \in Error : (v.variant = made.variant /\ fmt(v) = rendered[1]) => v = made

\* C8: the rendering of InvalidBlockId(s) is s itself, nothing added, and the value
\* is retriable.
C8_InvalidBlockIdRendersItsString ==
    made.variant = "InvalidBlockId" =>
        /\ rendered # None => rendered = Some(made.f0)
        /\ retriable # None => retriable = Some(TRUE)

C8_Witness ==
    /\ made.variant = "InvalidBlockId"
    /\ Len(made.f0) = MaxStrLen
    /\ rendered = Some(made.f0)
    /\ retriable = Some(TRUE)

\* C9: the rendering of TooLowPriority { old, new } contains the digits of old and,
\* after them, the digits of new, for all old and new; the value is not retriable.
C9_TooLowPriorityRendersBoth ==
    made.variant = "TooLowPriority" =>
        /\ rendered # None => ContainsInOrder(rendered[1], Dec(made.old), Dec(made.new))
        /\ retriable # None => retriable = Some(FALSE)

C9_Witness ==
    /\ made = TooLowPriority(10, 5)
    /\ rendered # None
    /\ retriable = Some(FALSE)

\* C10: an Error value does not change after construction: while it has not been
\* moved it is the value that was constructed, whatever is_retriable() calls and
\* renderings happened; into_pool_error() yields that value; and the yielded value
\* classifies as the original did.
C10_NoMutableState ==
    /\ converted = None => e = made
    /\ converted # None => (e = NoError /\ converted = Some(Ok(made)))
    /\ (retriable # None /\ reclassified # None) => reclassified = retriable

C10_Witness ==
    /\ made.variant = "InvalidBlockId"
    /\ retriable # None
    /\ rendered # None
    /\ converted # None
    /\ reclassified = Some(TRUE)
============================================================================
